---- MODULE Spec2Model ----
(***************************************************************************)
(* PFAS dashboard (dashboard_app_v5.py): load_data, the sidebar filters,   *)
(* make_map, download_csv, the time-series tab and make_bar_by_location.   *)
(*                                                                         *)
(* A table is a sequence of rows, a row a record with one field per CSV    *)
(* column.  Text is a sequence of Unicode code points, so that strip(),    *)
(* lower() and sorted() are computed and not assumed.  A number is an      *)
(* exact fraction num/den in lowest terms; NaN is the missing value.       *)
(***************************************************************************)
EXTENDS Integers, Sequences, FiniteSets, TLC

VARIABLES pc, raw, df, subset, markers, csv, lijn, staaf

vars == <<pc, raw, df, subset, markers, csv, lijn, staaf>>

(* ---------------- bounds of the model ---------------- *)
MaxCoordRows == 2
MaxSortRows == 2
MaxSeriesRows == 4
MaxUnitRows == 2
MaxExcess == 2
MaxLoq == 23

(* ---------------- constants of the program ---------------- *)
max_rows == 80
default_rank == 9999
max_locations == 25

(* ---------------- numbers ---------------- *)
Abs(n) == IF n < 0 THEN -n ELSE n

RECURSIVE GCD(_, _)
GCD(a, b) == IF b = 0 THEN a ELSE GCD(b, a % b)

NaN == [kind |-> "nan", num |-> 0, den |-> 1]

Num(n, d) ==
    LET g == GCD(Abs(n), d)
    IN  IF n = 0 THEN [kind |-> "num", num |-> 0, den |-> 1]
        ELSE [kind |-> "num", num |-> n \div g, den |-> d \div g]

isna(x) == x.kind = "nan"

\* x / k and x * k on a float cell; NaN propagates
Div(x, k) == IF isna(x) THEN NaN ELSE Num(x.num, x.den * k)
Mul(x, k) == IF isna(x) THEN NaN ELSE Num(x.num * k, x.den)
Add(x, y) == IF isna(x) \/ isna(y) THEN NaN
             ELSE Num(x.num * y.den + y.num * x.den, x.den * y.den)

\* comparisons of two present numbers
NumLt(x, y) == x.num * y.den < y.num * x.den
\* Series.abs() > k ; a comparison with NaN is False
AbsGt(x, k) == ~isna(x) /\ Abs(x.num) > k * x.den

\* pd.to_numeric(errors="coerce") on one CSV cell
to_numeric(cell) == IF cell.kind = "num" THEN Num(cell.num, cell.den) ELSE NaN

IsWhole(x) == x.num % x.den = 0

(* ---------------- text ---------------- *)
IsSpace(c) == c \in {9, 10, 11, 12, 13, 32}

RECURSIVE lstrip(_)
lstrip(s) == IF s # <<>> /\ IsSpace(Head(s)) THEN lstrip(Tail(s)) ELSE s

RECURSIVE rstrip(_)
rstrip(s) == IF s # <<>> /\ IsSpace(s[Len(s)])
             THEN rstrip(SubSeq(s, 1, Len(s) - 1)) ELSE s

strip(s) == rstrip(lstrip(s))

\* str.lower() of one code point: A-Z, and the capital Greek Mu; the micro
\* sign U+00B5 is already lower case
LowerChar(c) == IF c >= 65 /\ c <= 90 THEN c + 32
                ELSE IF c = 924 THEN 956 ELSE c

lower(s) == [i \in DOMAIN s |-> LowerChar(s[i])]

\* Python's ordering of str: lexicographic by code point
RECURSIVE StrLt(_, _)
StrLt(s, t) ==
    IF t = <<>> THEN FALSE
    ELSE IF s = <<>> THEN TRUE
    ELSE IF Head(s) # Head(t) THEN Head(s) < Head(t)
    ELSE StrLt(Tail(s), Tail(t))

s_nan == <<110, 97, 110>>
s_ug_l == <<117, 103, 47, 108>>
s_mug_l == <<181, 103, 47, 108>>

s_PFOS == <<80, 70, 79, 83>>
s_PFOA == <<80, 70, 79, 65>>
s_PFHxS == <<80, 70, 72, 120, 83>>
s_PFNA == <<80, 70, 78, 65>>
s_PFHxA == <<80, 70, 72, 120, 65>>

\* astype(str) of a CSV cell: an empty cell was read as NaN and prints "nan"
astype_str(cell) == IF cell = <<>> THEN s_nan ELSE cell

(* ---------------- load_data ---------------- *)
\* lines 20-22
CoerceCoords(r) ==
    [r EXCEPT !.Latitude = to_numeric(r.Latitude),
              !.Longitude = to_numeric(r.Longitude)]

\* line 27
mask_scaled(r) == AbsGt(r.Latitude, 90) \/ AbsGt(r.Longitude, 180)

\* each field rescaled on its own test
RescaleRow_per_field(r) ==
    [r EXCEPT !.Latitude = IF AbsGt(r.Latitude, 90)
                           THEN Div(r.Latitude, 10000) ELSE r.Latitude,
              !.Longitude = IF AbsGt(r.Longitude, 180)
                            THEN Div(r.Longitude, 10000) ELSE r.Longitude]

\* lines 28-29
RescaleRow(r) ==
    IF mask_scaled(r)
    THEN [r EXCEPT !.Latitude = Div(r.Latitude, 10000),
                   !.Longitude = Div(r.Longitude, 10000)]
    ELSE r

\* line 33: astype("Int64") refuses a float column holding a non-whole number
Int64CastRaises(t) ==
    \E i \in DOMAIN t : LET j == to_numeric(t[i].Jaar)
                        IN  ~isna(j) /\ ~IsWhole(j)

\* lines 33-40 on one row
CoerceRest(r) ==
    [r EXCEPT !.Jaar = to_numeric(r.Jaar),
              !.Waarde = to_numeric(r.Waarde),
              !.Locatie = strip(astype_str(r.Locatie)),
              !.PFAS = strip(astype_str(r.PFAS)),
              !.Bron = strip(astype_str(r.Bron)),
              !.Medium = strip(astype_str(r.Medium)),
              !.Sampletype = strip(astype_str(r.Sampletype)),
              !.Eenheid = strip(astype_str(r.Eenheid))]

load_data(t) ==
    IF Int64CastRaises(t)
    THEN [ok |-> FALSE, df |-> <<>>]
    ELSE [ok |-> TRUE,
          df |-> [i \in DOMAIN t |-> CoerceRest(RescaleRow(CoerceCoords(t[i])))]]

(* ---------------- the CSV tables the model starts from ---------------- *)
Cell(n) == [kind |-> "num", num |-> n, den |-> 1]
Frac(n, d) == [kind |-> "num", num |-> n, den |-> d]
TextCell == [kind |-> "text", num |-> 0, den |-> 1]
EmptyCell == [kind |-> "empty", num |-> 0, den |-> 1]

s_LocA == <<76, 111, 99, 65>>
s_LocB == <<76, 111, 99, 66>>
s_RWS == <<82, 87, 83>>
s_WUR == <<87, 85, 82>>
s_water == <<119, 97, 116, 101, 114>>
s_slib == <<115, 108, 105, 98>>
s_grab == <<103, 114, 97, 98>>
s_XYZ == <<88, 89, 90>>
s_ng_L == <<110, 103, 47, 76>>
s_ug_L == <<117, 103, 47, 76>>
s_mug_L == <<181, 103, 47, 76>>
s_UG_L_sp == <<32, 85, 71, 47, 76, 32>>
s_GreekMug_L == <<924, 103, 47, 76>>
s_mg_kg == <<109, 103, 47, 107, 103>>

BaseRow ==
    [Locatie |-> s_LocA, PFAS |-> s_PFOS, Bron |-> s_RWS, Medium |-> s_water,
     Sampletype |-> s_grab, Jaar |-> Cell(2020), Waarde |-> Cell(5),
     Eenheid |-> s_ng_L, Latitude |-> Cell(51), Longitude |-> Cell(4),
     LOQ_flag |-> "False"]

\* coordinates: in range, scaled by 10,000, scaled further, unparsable
CoordRows ==
    {[BaseRow EXCEPT !.Latitude = la, !.Longitude = lo] :
        la \in {Cell(51), Cell(514425), Cell(1000000), TextCell},
        lo \in {Cell(4), Cell(2000000), TextCell}}

\* substances inside and outside the priority list; present, negative,
\* unparsable and fractional years; two values
SortRows ==
    {[BaseRow EXCEPT !.PFAS = p, !.Jaar = j] :
        p \in {s_PFOA, s_XYZ},
        j \in {Cell(2020), Cell(-2), TextCell, Frac(4039, 2)}}
    \cup {BaseRow, [BaseRow EXCEPT !.PFAS = s_PFOA, !.Waarde = Cell(7)]}

\* combinations with zero, one and several distinct years
SeriesRows ==
    {[BaseRow EXCEPT !.Jaar = j] : j \in {Cell(2019), Cell(2020), EmptyCell}}
    \cup {[BaseRow EXCEPT !.PFAS = s_PFOA, !.Locatie = s_LocB, !.Medium = s_slib,
                          !.Bron = s_WUR, !.Jaar = j] : j \in {Cell(2019), Cell(2020)}}

\* unit labels in both years, a location that prints as "nan", a second location
UnitRows ==
    {[BaseRow EXCEPT !.Eenheid = s_ng_L, !.Waarde = Cell(3), !.Jaar = Cell(2019)],
     [BaseRow EXCEPT !.Eenheid = s_ug_L, !.Waarde = Cell(3)],
     [BaseRow EXCEPT !.Eenheid = s_mug_L, !.Waarde = Cell(3), !.Jaar = Cell(2019)],
     [BaseRow EXCEPT !.Eenheid = s_UG_L_sp, !.Waarde = Cell(3)],
     [BaseRow EXCEPT !.Eenheid = s_GreekMug_L, !.Waarde = Cell(3), !.Jaar = Cell(2019)],
     [BaseRow EXCEPT !.Eenheid = s_mg_kg, !.Waarde = Cell(3)],
     [BaseRow EXCEPT !.Locatie = <<>>, !.Eenheid = s_ug_L],
     [BaseRow EXCEPT !.Locatie = s_LocB, !.Waarde = Cell(7), !.LOQ_flag = "True"]}

TablesOf(rows, n) == UNION {[1..k -> rows] : k \in 0..n}

\* long tables: one or two locations with many measurements
BigPatterns ==
    {<<BaseRow, [BaseRow EXCEPT !.PFAS = s_XYZ, !.Jaar = Cell(2019)]>>,
     <<BaseRow, [BaseRow EXCEPT !.Locatie = s_LocB, !.LOQ_flag = "True"]>>}

BigTable(n, pat) == [i \in 1..n |-> pat[((i - 1) % Len(pat)) + 1]]

\* one location with n measurements: the first k below the reporting limit,
\* the next m without a flag, the others above the limit
LoqSizes == {1, 3, 16, max_rows}

LoqTable(n, k, m) ==
    [i \in 1..n |->
        [BaseRow EXCEPT !.LOQ_flag = IF i <= k THEN "True"
                                     ELSE IF i <= k + m THEN "NaN"
                                     ELSE "False"]]

LoqTables ==
    {LoqTable(t[1], t[2], t[3]) :
        t \in {u \in LoqSizes \X (0..MaxLoq) \X (0..1) : u[2] + u[3] <= u[1]}}

RawTables ==
    TablesOf(CoordRows, MaxCoordRows) \cup TablesOf(SortRows, MaxSortRows)
    \cup TablesOf(SeriesRows, MaxSeriesRows) \cup TablesOf(UnitRows, MaxUnitRows)
    \cup {BigTable(n, pat) : n \in (max_rows - 1)..(max_rows + MaxExcess), pat \in BigPatterns}
    \cup LoqTables

(* ---------------- outputs of one script run ---------------- *)
NoCsv == [written |-> FALSE, columns |-> {}, rows |-> <<>>]
NoLijn == [status |-> "none", valid_groups |-> {}, pfas_options |-> <<>>,
           locatie_options |-> <<>>, medium_options |-> <<>>,
           bron_options |-> <<>>, gekozen |-> <<>>, lijn_df |-> <<>>,
           agg |-> <<>>]
NoStaaf == [status |-> "none", plot_df |-> <<>>, agg |-> <<>>]

Init ==
    /\ pc = "load"
    /\ raw \in RawTables
    /\ df = <<>>
    /\ subset = <<>>
    /\ markers = {}
    /\ csv = NoCsv
    /\ lijn = NoLijn
    /\ staaf = NoStaaf

\* line 269: df = load_data(DATA_PATH); an exception ends the script
Load ==
    /\ pc = "load"
    /\ \E res \in {load_data(raw)} :
          /\ pc' = IF res.ok THEN "sidebar" ELSE "error"
          /\ df' = res.df
    /\ UNCHANGED <<raw, subset, markers, csv, lijn, staaf>>

(* ---------------- sidebar filters, lines 274-329 ---------------- *)
FilterCols == <<"Bron", "Medium", "PFAS", "Jaar", "Sampletype", "Locatie">>

\* working_df[col].dropna().unique()
FilterOptions(t, col) ==
    IF col = "Jaar"
    THEN {t[i].Jaar : i \in {k \in DOMAIN t : ~isna(t[k].Jaar)}}
    ELSE {t[i][col] : i \in DOMAIN t}

\* if sel: working_df = working_df[working_df[col].isin(sel)]
ApplyFilter(t, col, sel) ==
    IF sel = {} THEN t ELSE SelectSeq(t, LAMBDA r : r[col] \in sel)

\* every working_df the multiselects can produce from the tables in S
RECURSIVE FilterChain(_, _)
FilterChain(S, k) ==
    IF k > Len(FilterCols) THEN S
    ELSE FilterChain(
            UNION {{ApplyFilter(w, FilterCols[k], sel) :
                        sel \in SUBSET FilterOptions(w, FilterCols[k])} : w \in S},
            k + 1)

\* lines 327-329
DropNaWaarde(t) == SelectSeq(t, LAMBDA r : ~isna(r.Waarde))

\* a rerun of the script: the page is rebuilt from the cached table
Sidebar ==
    /\ pc = "sidebar"
    /\ \E filters_aan \in BOOLEAN :
         \E working_df \in (IF filters_aan THEN FilterChain({df}, 1) ELSE {df}) :
            \E kept \in {DropNaWaarde(working_df)} : subset' = kept
    /\ markers' = {}
    /\ csv' = NoCsv
    /\ lijn' = NoLijn
    /\ staaf' = NoStaaf
    /\ pc' = "kaart"
    /\ UNCHANGED <<raw, df>>

(* ---------------- make_map, lines 100-257 ---------------- *)
s_PFBS == <<80, 70, 66, 83>>
s_PFPeA == <<80, 70, 80, 101, 65>>
s_PFPeS == <<80, 70, 80, 101, 83>>
s_PFHpA == <<80, 70, 72, 112, 65>>
s_PFHpS == <<80, 70, 72, 112, 83>>
s_PFDA == <<80, 70, 68, 65>>
s_PFUnDA == <<80, 70, 85, 110, 68, 65>>
s_PFDoDA == <<80, 70, 68, 111, 68, 65>>
s_GenX == <<71, 101, 110, 88>>
s_HFPO_DA == <<72, 70, 80, 79, 45, 68, 65>>

pfas_priority ==
    <<s_PFOS, s_PFOA, s_PFHxS, s_PFNA, s_PFHxA, s_PFBS, s_PFPeA, s_PFPeS,
      s_PFHpA, s_PFHpS, s_PFDA, s_PFUnDA, s_PFDoDA, s_GenX, s_HFPO_DA>>

\* tmp["PFAS"].map(priority_rank).fillna(default_rank).astype(int)
pfas_rank(p) ==
    IF \E i \in DOMAIN pfas_priority : pfas_priority[i] = p
    THEN (CHOOSE i \in DOMAIN pfas_priority : pfas_priority[i] = p) - 1
    ELSE default_rank

\* pd.to_numeric(...).fillna(-1)
fillna_sort(x) == IF isna(x) THEN Num(-1, 1) ELSE x

SortKey(r) ==
    [pfas_rank |-> pfas_rank(r.PFAS),
     jaar_sort |-> fillna_sort(r.Jaar),
     waarde_sort |-> fillna_sort(r.Waarde)]

\* by=[rank, jaar, waarde], ascending=[True, False, False]
KeyBefore(a, b) ==
    \/ a.pfas_rank < b.pfas_rank
    \/ /\ a.pfas_rank = b.pfas_rank
       /\ \/ NumLt(b.jaar_sort, a.jaar_sort)
          \/ /\ a.jaar_sort = b.jaar_sort
             /\ NumLt(b.waarde_sort, a.waarde_sort)

RECURSIVE Concat(_, _)
Concat(seqs, n) == IF n = 0 THEN <<>> ELSE Concat(seqs, n - 1) \o seqs[n]

\* DataFrame.sort_values on several keys: the distinct keys in order, and
\* under each key its rows in the order they had
sort_values(t) ==
    LET K == {SortKey(t[i]) : i \in DOMAIN t}
        keys == [p \in 1..Cardinality(K) |->
                    CHOOSE k \in K :
                        Cardinality({x \in K : KeyBefore(x, k)}) = p - 1]
    IN  Concat([p \in DOMAIN keys |->
                    SelectSeq(t, LAMBDA r : SortKey(r) = keys[p])],
               Len(keys))

\* the seven table cells of one popup row, lines 175-186
PopupRow(r) ==
    [PFAS |-> r.PFAS, Jaar |-> r.Jaar, Waarde |-> r.Waarde,
     Eenheid |-> r.Eenheid, Bron |-> r.Bron, Medium |-> r.Medium,
     Sampletype |-> r.Sampletype]

\* DataFrame.head(k)
head(t, k) == SubSeq(t, 1, IF Len(t) < k THEN Len(t) ELSE k)

\* the note already at max_rows rows
more_note_at_cap(tmp) ==
    IF Len(tmp) >= max_rows
    THEN [present |-> TRUE, shown |-> max_rows, total |-> Len(tmp)]
    ELSE [present |-> FALSE, shown |-> 0, total |-> 0]

\* lines 188-194: "Toont {max_rows} van {len(tmp)} metingen."
more_note(tmp) ==
    IF Len(tmp) > max_rows
    THEN [present |-> TRUE, shown |-> max_rows, total |-> Len(tmp)]
    ELSE [present |-> FALSE, shown |-> 0, total |-> 0]

\* subset.dropna(subset=["Latitude", "Longitude"])
DropNaCoords(t) ==
    SelectSeq(t, LAMBDA r : ~isna(r.Latitude) /\ ~isna(r.Longitude))

\* lines 155-158: int(g["LOQ_flag"].fillna(False).sum()); a missing flag is
\* filled with False, so only the flags that are True are summed
n_loq(g) == Cardinality({i \in DOMAIN g : g[i].LOQ_flag = "True"})

\* line 159, the double (k / n) * 100 where 100 k / n lies exactly halfway
\* between two one-decimal numbers: the sign of its error against 100 k / n.
\* In IEEE-754 binary64 the quotient k / n is rounded and the product by 100
\* is rounded again; for groups of fewer than 400 rows the result is the
\* exact halfway value except at these fractions, where it falls just above
\* (11/80, 49/80) or just below (23/80, 41/80, 51/80).
tie_error(k, n) ==
    IF 80 * k = 11 * n \/ 80 * k = 49 * n THEN 1
    ELSE IF 80 * k = 23 * n \/ 80 * k = 41 * n \/ 80 * k = 51 * n THEN -1
    ELSE 0

\* line 159: round(x, 1) of the double x = (k / n) * 100, in tenths. round
\* is correctly rounded on the value of the double: the nearest tenth, and
\* the even tenth when the double is exactly halfway.
round_1(k, n) ==
    LET q == (1000 * k) \div n
        r == (1000 * k) % n
    IN  IF 2 * r < n THEN q
        ELSE IF 2 * r > n THEN q + 1
        ELSE IF tie_error(k, n) < 0 THEN q
        ELSE IF tie_error(k, n) > 0 THEN q + 1
        ELSE IF q % 2 = 0 THEN q ELSE q + 1

\* line 159: round((n_loq / n) * 100, 1) if n > 0 else 0
perc_loq(k, n) == IF n > 0 THEN Num(round_1(k, n), 10) ELSE Num(0, 1)

\* lines 151-255 for one group
Marker(loc, lat, lon, g) ==
    LET tmp == sort_values(g)
        show_tmp == head(tmp, max_rows)
    IN  [loc |-> loc, lat |-> lat, lon |-> lon,
         n |-> Len(g),
         n_loq |-> n_loq(g),
         perc_loq |-> perc_loq(n_loq(g), Len(g)),
         rows |-> [i \in DOMAIN show_tmp |-> PopupRow(show_tmp[i])],
         more_note |-> more_note(tmp)]

\* the markers added to the map
make_map(map_df) ==
    LET t == DropNaCoords(map_df)
        keys == {<<t[i].Locatie, t[i].Latitude, t[i].Longitude>> : i \in DOMAIN t}
    IN  {Marker(k[1], k[2], k[3],
                SelectSeq(t, LAMBDA r : <<r.Locatie, r.Latitude, r.Longitude>> = k)) :
            k \in keys}

\* lines 378-393
TabKaart ==
    /\ pc = "kaart"
    /\ \E map_df \in {DropNaCoords(subset)} :
          \E m \in {IF subset = <<>> \/ map_df = <<>> THEN {}
                    ELSE make_map(map_df)} :
             markers' = m
    /\ pc' = "tabel"
    /\ UNCHANGED <<raw, df, subset, csv, lijn, staaf>>

(* ---------------- table tab and export, lines 395-405 ---------------- *)
Columns ==
    {"Locatie", "PFAS", "Bron", "Medium", "Sampletype", "Jaar", "Waarde",
     "Eenheid", "Latitude", "Longitude", "LOQ_flag"}

\* df.to_csv(index=False): the header and one line per row
download_csv(t) ==
    [written |-> TRUE,
     columns |-> IF t = <<>> THEN Columns ELSE DOMAIN t[1],
     rows |-> t]

TabTabel ==
    /\ pc = "tabel"
    /\ \E data \in {download_csv(subset)} : csv' = data
    /\ pc' = "lijn"
    /\ UNCHANGED <<raw, df, subset, markers, lijn, staaf>>

(* ---------------- helpers of the two chart tabs ---------------- *)
Range(f) == {f[i] : i \in DOMAIN f}

\* sorted(values) of distinct strings
SortedStr(S) ==
    [p \in 1..Cardinality(S) |->
        CHOOSE x \in S : Cardinality({y \in S : StrLt(y, x)}) = p - 1]

\* Series.median(): NaN is skipped; NaN when nothing is left.  The k-th
\* smallest value is the one with fewer than k values below it and at least
\* k values not above it.
median(v) ==
    LET w == SelectSeq(v, LAMBDA x : ~isna(x))
        n == Len(w)
        Kth(k) == CHOOSE x \in Range(w) :
                    /\ Cardinality({j \in DOMAIN w : NumLt(w[j], x)}) < k
                    /\ Cardinality({j \in DOMAIN w : ~NumLt(x, w[j])}) >= k
    IN  IF n = 0 THEN NaN
        ELSE IF n % 2 = 1 THEN Kth((n + 1) \div 2)
        ELSE Div(Add(Kth(n \div 2), Kth(n \div 2 + 1)), 2)

top_pfas == <<s_PFOS, s_PFOA, s_PFHxS, s_PFNA, s_PFHxA>>

(* ---------------- time-series tab, lines 407-480 ---------------- *)
Combo(r) == [PFAS |-> r.PFAS, Locatie |-> r.Locatie, Medium |-> r.Medium,
             Bron |-> r.Bron]

\* nunique(dropna=False): NaN counted as one more value
nunique_jaar_with_nan(t, c) ==
    Cardinality({t[i].Jaar : i \in {k \in DOMAIN t : Combo(t[k]) = c}})

\* SeriesGroupBy.nunique(): distinct values, NaN not counted
nunique_jaar(t, c) ==
    Cardinality({t[i].Jaar :
        i \in {k \in DOMAIN t : Combo(t[k]) = c /\ ~isna(t[k].Jaar)}})

\* lines 413-418
valid_groups(t) ==
    {[PFAS |-> c.PFAS, Locatie |-> c.Locatie, Medium |-> c.Medium,
      Bron |-> c.Bron, Jaar |-> nunique_jaar(t, c)] :
        c \in {d \in {Combo(t[i]) : i \in DOMAIN t} : nunique_jaar(t, d) >= 2}}

\* lines 428-432
pfas_options(vg) ==
    LET pfas_all == {g.PFAS : g \in vg}
        top_present == SelectSeq(top_pfas, LAMBDA q : q \in pfas_all)
    IN  top_present \o SortedStr(pfas_all \ Range(top_present))

\* the locations of every valid group, whatever the substance
locatie_options_all(vg, gekozen_pfas) ==
    SortedStr({g.Locatie : g \in vg})

\* lines 437-438
locatie_options(vg, gekozen_pfas) ==
    SortedStr({g.Locatie : g \in {h \in vg : h.PFAS = gekozen_pfas}})

\* lines 441-442
medium_options(vg, gekozen_pfas, gekozen_locatie) ==
    SortedStr({g.Medium : g \in {h \in vg : h.PFAS = gekozen_pfas
                                          /\ h.Locatie = gekozen_locatie}})

\* lines 445-446
bron_options(vg, gekozen_pfas, gekozen_locatie, gekozen_medium) ==
    SortedStr({g.Bron : g \in {h \in vg : h.PFAS = gekozen_pfas
                                        /\ h.Locatie = gekozen_locatie
                                        /\ h.Medium = gekozen_medium}})

\* only the ASCII spelling recognised
waarde_plot_lijn_ascii(r) ==
    IF lower(r.Eenheid) \in {s_ug_l} THEN Mul(r.Waarde, 1000)
    ELSE r.Waarde

\* lines 457-460: lijn_df["Waarde_plot"]
waarde_plot_lijn(r) ==
    IF lower(r.Eenheid) \in {s_ug_l, s_mug_l} THEN Mul(r.Waarde, 1000)
    ELSE r.Waarde

WithPlot(r, w) ==
    [c \in DOMAIN r \cup {"Waarde_plot"} |->
        IF c = "Waarde_plot" THEN w ELSE r[c]]

\* ascending order of distinct present numbers (sort_index)
SortedNumSet(S) ==
    [p \in 1..Cardinality(S) |->
        CHOOSE x \in S : Cardinality({y \in S : NumLt(y, x)}) = p - 1]

\* line 462: groupby("Jaar")["Waarde_plot"].median().sort_index()
jaar_median(t) ==
    LET jaren == SortedNumSet({t[i].Jaar : i \in {k \in DOMAIN t : ~isna(t[k].Jaar)}})
    IN  [p \in DOMAIN jaren |->
            [Jaar |-> jaren[p],
             Waarde_plot |->
                LET g == SelectSeq(t, LAMBDA r : r.Jaar = jaren[p])
                IN  median([i \in DOMAIN g |-> g[i].Waarde_plot])]]

\* one choice list of a selectbox: an empty list yields no choice
Choices(options) == IF options = <<>> THEN {<<>>} ELSE Range(options)

TabLijn ==
    /\ pc = "lijn"
    /\ IF subset = <<>>
       THEN lijn' = [NoLijn EXCEPT !.status = "geen_data"]
       ELSE \E vg \in {valid_groups(subset)} :
                IF vg = {}
                THEN lijn' = [NoLijn EXCEPT !.status = "geen_combinaties"]
                ELSE
                  \E gekozen_pfas \in Choices(pfas_options(vg)) :
                  \E gekozen_locatie \in Choices(locatie_options(vg, gekozen_pfas)) :
                  \E gekozen_medium \in
                        Choices(medium_options(vg, gekozen_pfas, gekozen_locatie)) :
                  \E gekozen_bron \in
                        Choices(bron_options(vg, gekozen_pfas, gekozen_locatie,
                                             gekozen_medium)) :
                    LET sel == SelectSeq(subset, LAMBDA r :
                                   /\ r.PFAS = gekozen_pfas
                                   /\ r.Locatie = gekozen_locatie
                                   /\ r.Medium = gekozen_medium
                                   /\ r.Bron = gekozen_bron)
                        lijn_df == [i \in DOMAIN sel |->
                                       WithPlot(sel[i], waarde_plot_lijn(sel[i]))]
                    IN  \E out \in {
                          [status |-> "plot",
                           valid_groups |-> vg,
                           pfas_options |-> pfas_options(vg),
                           locatie_options |-> locatie_options(vg, gekozen_pfas),
                           medium_options |->
                              medium_options(vg, gekozen_pfas, gekozen_locatie),
                           bron_options |->
                              bron_options(vg, gekozen_pfas, gekozen_locatie,
                                           gekozen_medium),
                           gekozen |-> <<gekozen_pfas, gekozen_locatie,
                                         gekozen_medium, gekozen_bron>>,
                           lijn_df |-> lijn_df,
                           agg |-> jaar_median(lijn_df)]} :
                          lijn' = out
    /\ pc' = "staaf"
    /\ UNCHANGED <<raw, df, subset, markers, csv, staaf>>

(* ---------------- bar chart, lines 52-94 and 482-504 ---------------- *)
\* lines 56-60
GeldigeLocatie(r) == strip(r.Locatie) # <<>> /\ lower(r.Locatie) # s_nan

\* lines 63-69: plot_df["Waarde_plot"]
waarde_plot_bar(r) ==
    IF lower(r.Eenheid) \in {s_ug_l, s_mug_l} THEN Mul(r.Waarde, 1000)
    ELSE r.Waarde

\* groupby("Locatie")["Waarde_plot"].median().sort_values(ascending=False)
locatie_median(t) ==
    LET locs == SortedStr({t[i].Locatie : i \in DOMAIN t})
        med == [p \in DOMAIN locs |->
                  LET g == SelectSeq(t, LAMBDA r : r.Locatie = locs[p])
                  IN  median([i \in DOMAIN g |-> g[i].Waarde_plot])]
        \* descending, NaN last, ties in index order
        Before(a, b) == IF isna(med[a]) THEN FALSE
                        ELSE IF isna(med[b]) THEN TRUE
                        ELSE NumLt(med[b], med[a])
        pos == [a \in DOMAIN locs |->
                  Cardinality({b \in DOMAIN locs :
                      Before(b, a) \/ (~Before(a, b) /\ b < a)}) + 1]
    IN  [p \in DOMAIN locs |->
            LET a == CHOOSE b \in DOMAIN locs : pos[b] = p
            IN  [Locatie |-> locs[a], Waarde_plot |-> med[a]]]

\* normalization written into the caller's Waarde column
make_bar_by_location_in_place(t, max_loc) ==
    LET norm == [i \in DOMAIN t |-> [t[i] EXCEPT !.Waarde = waarde_plot_bar(t[i])]]
        kept == SelectSeq(norm, GeldigeLocatie)
        plot_df == [i \in DOMAIN kept |-> WithPlot(kept[i], kept[i].Waarde)]
        tmp == head(locatie_median(plot_df), max_loc)
        top == SelectSeq(plot_df, LAMBDA r :
                   \E p \in DOMAIN tmp : tmp[p].Locatie = r.Locatie)
    IN  [df |-> norm, plot_df |-> top, agg |-> locatie_median(top)]

\* the function works on a copy: df is what the caller's table holds afterwards
make_bar_by_location(t, max_loc) ==
    LET kept == SelectSeq(t, GeldigeLocatie)
        plot_df == [i \in DOMAIN kept |->
                       WithPlot(kept[i], waarde_plot_bar(kept[i]))]
        tmp == head(locatie_median(plot_df), max_loc)
        top == SelectSeq(plot_df, LAMBDA r :
                   \E p \in DOMAIN tmp : tmp[p].Locatie = r.Locatie)
    IN  [df |-> t, plot_df |-> top, agg |-> locatie_median(top)]

\* lines 482-504; the script ends here and the next interaction reruns it
TabStaaf ==
    /\ pc = "staaf"
    /\ LET geselecteerde_pfas == {subset[i].PFAS : i \in DOMAIN subset}
       IN  IF Cardinality(geselecteerde_pfas) = 0
           THEN /\ staaf' = [NoStaaf EXCEPT !.status = "geen_pfas"]
                /\ subset' = subset
           ELSE IF Cardinality(geselecteerde_pfas) > 1
           THEN /\ staaf' = [NoStaaf EXCEPT !.status = "meerdere_pfas"]
                /\ subset' = subset
           ELSE \E res \in {make_bar_by_location(subset, max_locations)} :
                    /\ staaf' = [status |-> "plot", plot_df |-> res.plot_df,
                                 agg |-> res.agg]
                    /\ subset' = res.df
    /\ pc' = "sidebar"
    /\ UNCHANGED <<raw, df, markers, csv, lijn>>

Next == Load \/ Sidebar \/ TabKaart \/ TabTabel \/ TabLijn \/ TabStaaf

Spec == Init /\ [][Next]_vars

(* ======================= properties ======================= *)
Loaded == pc \notin {"load", "error"}

AbsLe(x, k) == ~isna(x) /\ Abs(x.num) <= k * x.den

\* C1: after load_data every row has |Latitude| <= 90 and |Longitude| <= 180,
\* or both coordinates are missing.
C1_CoordsValidOrBothMissing ==
    Loaded =>
        \A i \in DOMAIN df :
            \/ AbsLe(df[i].Latitude, 90) /\ AbsLe(df[i].Longitude, 180)
            \/ isna(df[i].Latitude) /\ isna(df[i].Longitude)

\* C2: load_data never ends in an error, and every Jaar of the loaded table
\* is a whole number or missing.
C2_JaarWholeOrMissingNoError ==
    /\ pc # "error"
    /\ Loaded => \A i \in DOMAIN df : isna(df[i].Jaar) \/ IsWhole(df[i].Jaar)

\* C3: a row whose coordinate is still out of range after load_data gives no
\* map marker, and it stays in the filtered subset that the table exports.
C3_OutOfRangeNotOnMap ==
    /\ \A m \in markers : AbsLe(m.lat, 90) /\ AbsLe(m.lon, 180)
    /\ csv.written => csv.rows = subset

\* y is x divided by 10,000 (a missing value stays missing)
IsTenThousandth(y, x) ==
    \/ isna(x) /\ isna(y)
    \/ /\ ~isna(x) /\ ~isna(y)
       /\ y.num * 10000 * x.den = x.num * y.den

\* C9: a row with |Latitude| > 90 or |Longitude| > 180 has both coordinates
\* divided by 10,000; a row with both in range keeps both unchanged.
C9_RescaleRowAtomic ==
    Loaded =>
        /\ Len(df) = Len(raw)
        /\ \A i \in DOMAIN raw :
            LET la == to_numeric(raw[i].Latitude)
                lo == to_numeric(raw[i].Longitude)
            IN  /\ (AbsGt(la, 90) \/ AbsGt(lo, 180)) =>
                       /\ IsTenThousandth(df[i].Latitude, la)
                       /\ IsTenThousandth(df[i].Longitude, lo)
                /\ (AbsLe(la, 90) /\ AbsLe(lo, 180)) =>
                       /\ df[i].Latitude = la
                       /\ df[i].Longitude = lo

\* a row whose latitude was in range was rescaled because its longitude was not
C9_Witness ==
    /\ Loaded
    /\ \E i \in DOMAIN raw :
          /\ AbsLe(to_numeric(raw[i].Latitude), 90)
          /\ AbsGt(to_numeric(raw[i].Longitude), 180)
          /\ df[i].Latitude # to_numeric(raw[i].Latitude)

\* the rows of the filtered subset that belong to the group of marker m
GroupRows(m) ==
    SelectSeq(subset, LAMBDA r : r.Locatie = m.loc /\ r.Latitude = m.lat
                                 /\ r.Longitude = m.lon)

PopupSizeAndNote(m) ==
    /\ Len(m.rows) <= 80
    /\ Len(m.rows) = (IF Len(GroupRows(m)) < 80 THEN Len(GroupRows(m)) ELSE 80)
    /\ \A i \in DOMAIN m.rows :
          \E k \in DOMAIN GroupRows(m) : m.rows[i] = PopupRow(GroupRows(m)[k])
    /\ m.more_note.present <=> Len(GroupRows(m)) > 80

ClaimRank(p) ==
    IF \E i \in DOMAIN pfas_priority : pfas_priority[i] = p
    THEN CHOOSE i \in DOMAIN pfas_priority : pfas_priority[i] = p
    ELSE Len(pfas_priority) + 1

DescMissingLast(x, y) ==
    ~isna(x) /\ (isna(y) \/ NumLt(y, x))

ClaimBefore(a, b) ==
    \/ ClaimRank(a.PFAS) < ClaimRank(b.PFAS)
    \/ /\ ClaimRank(a.PFAS) = ClaimRank(b.PFAS)
       /\ \/ DescMissingLast(a.Jaar, b.Jaar)
          \/ /\ a.Jaar = b.Jaar
             /\ DescMissingLast(a.Waarde, b.Waarde)

\* C5: the rows of every group are listed by (priority rank ascending, year
\* descending, value descending), a missing year or value after every present
\* one, and no row is dropped.
C5_GroupOrder ==
    \A m \in markers :
        /\ \A i, j \in DOMAIN m.rows :
              i < j => ~ClaimBefore(m.rows[j], m.rows[i])
        /\ m.n = Len(GroupRows(m))
        /\ m.n <= 80 => Len(m.rows) = m.n

\* the distinct present years among the subset rows of combination c
DistinctYears(c) ==
    {j \in {subset[i].Jaar : i \in DOMAIN subset} :
        /\ ~isna(j)
        /\ \E i \in DOMAIN subset : Combo(subset[i]) = c /\ subset[i].Jaar = j}

ValidCombos == {Combo(g) : g \in lijn.valid_groups}

\* C6: for a non-empty subset a (PFAS, Locatie, Medium, Bron) combination is in
\* valid_groups if and only if it has at least 2 distinct non-missing years.
C6_ValidIffTwoDistinctYears ==
    lijn.status \in {"plot", "geen_combinaties"} =>
        /\ ValidCombos \subseteq {Combo(subset[i]) : i \in DOMAIN subset}
        /\ \A i \in DOMAIN subset :
              Combo(subset[i]) \in ValidCombos
                  <=> Cardinality(DistinctYears(Combo(subset[i]))) >= 2
        /\ \A g \in lijn.valid_groups :
              g.Jaar = Cardinality(DistinctYears(Combo(g)))

\* a valid combination holding a row without year, next to an invalid one
C6_Witness ==
    /\ lijn.status = "plot"
    /\ \E i \in DOMAIN subset :
          isna(subset[i].Jaar) /\ Combo(subset[i]) \in ValidCombos
    /\ \E i \in DOMAIN subset : Combo(subset[i]) \notin ValidCombos

\* C7: the export holds the rows of the filtered subset with Waarde and Eenheid
\* as loaded and without Waarde_plot; no render changes the filtered subset or
\* the loaded table.
C7_ExportIsRaw ==
    Loaded =>
        /\ df = load_data(raw).df
        /\ \A i \in DOMAIN subset : \E j \in DOMAIN df : subset[i] = df[j]
        /\ csv.written =>
              /\ "Waarde_plot" \notin csv.columns
              /\ Len(csv.rows) = Len(subset)
              /\ \A i \in DOMAIN csv.rows :
                    /\ csv.rows[i].Waarde = subset[i].Waarde
                    /\ csv.rows[i].Eenheid = subset[i].Eenheid
                    /\ \E j \in DOMAIN df : csv.rows[i] = df[j]

\* map, export, time series and bar chart were rendered, the charts on a
\* normalized value
C7_Witness ==
    /\ pc = "sidebar"
    /\ csv.written /\ csv.rows # <<>>
    /\ markers # {}
    /\ lijn.status = "plot"
    /\ staaf.status = "plot"
    /\ \E i \in DOMAIN staaf.plot_df :
          staaf.plot_df[i].Waarde_plot # staaf.plot_df[i].Waarde
    /\ \E i \in DOMAIN lijn.lijn_df :
          lijn.lijn_df[i].Waarde_plot # lijn.lijn_df[i].Waarde

\* two labels that differ at most in the case of their letters
SameIgnoringCase(s, t) ==
    /\ Len(s) = Len(t)
    /\ \A i \in DOMAIN s :
          \/ s[i] = t[i]
          \/ s[i] \in 65..90 /\ t[i] = s[i] + 32
          \/ t[i] \in 65..90 /\ s[i] = t[i] + 32

LabelIsMicrogram(e) == SameIgnoringCase(e, s_ug_l) \/ SameIgnoringCase(e, s_mug_l)

DerivedAsClaimed(r) ==
    IF LabelIsMicrogram(r.Eenheid)
    THEN r.Waarde_plot.num * r.Waarde.den = 1000 * r.Waarde.num * r.Waarde_plot.den
    ELSE r.Waarde_plot = r.Waarde

C10_TieredChoiceIsValid ==
    lijn.status = "plot" =>
        LET vg == lijn.valid_groups
            g == lijn.gekozen
        IN  /\ Range(lijn.pfas_options) = {h.PFAS : h \in vg}
            /\ Range(lijn.locatie_options) =
                  {h.Locatie : h \in {x \in vg : x.PFAS = g[1]}}
            /\ Range(lijn.medium_options) =
                  {h.Medium : h \in {x \in vg : x.PFAS = g[1] /\ x.Locatie = g[2]}}
            /\ Range(lijn.bron_options) =
                  {h.Bron : h \in {x \in vg : /\ x.PFAS = g[1] /\ x.Locatie = g[2]
                                             /\ x.Medium = g[3]}}
            /\ \E h \in vg : <<h.PFAS, h.Locatie, h.Medium, h.Bron>> = g
            /\ Len(lijn.agg) >= 2
            /\ \A p, q \in DOMAIN lijn.agg :
                  p < q => NumLt(lijn.agg[p].Jaar, lijn.agg[q].Jaar)
            /\ {lijn.agg[p].Jaar : p \in DOMAIN lijn.agg} =
                  DistinctYears([PFAS |-> g[1], Locatie |-> g[2],
                                 Medium |-> g[3], Bron |-> g[4]])

\* two valid combinations, and the location list was narrowed by the substance
C10_Witness ==
    /\ lijn.status = "plot"
    /\ Cardinality(lijn.valid_groups) >= 2
    /\ Range(lijn.locatie_options) # {h.Locatie : h \in lijn.valid_groups}

\* 100 k / n rounded to one decimal, in tenths: the nearest tenth, and at an
\* exact half either the tenth above (half up) or the even tenth (half even)
RoundedTenths(k, n) ==
    LET q == (1000 * k) \div n
        r == (1000 * k) % n
    IN  IF 2 * r < n THEN {q}
        ELSE IF 2 * r > n THEN {q + 1}
        ELSE {q + 1, IF q % 2 = 0 THEN q ELSE q + 1}

LoqStatsAsClaimed(m) ==
    LET g == GroupRows(m)
        flagged == {i \in DOMAIN g : g[i].LOQ_flag = "True"}
    IN  /\ m.n = Len(g)
        /\ m.n_loq = Cardinality(flagged)
        /\ 0 <= m.n_loq /\ m.n_loq <= m.n
        /\ IF m.n = 0 THEN m.perc_loq = Num(0, 1)
           ELSE \E p \in RoundedTenths(m.n_loq, m.n) : m.perc_loq = Num(p, 10)

\* C11: for every location group of make_map with n rows, n_loq is the number
\* of rows whose LOQ_flag is true (a missing flag counts as not below the
\* limit), so 0 <= n_loq <= n, and the reported percentage is 100 * n_loq / n
\* rounded to one decimal (0 when n = 0).
C11_LoqCountAndPercentage ==
    \A m \in markers : LoqStatsAsClaimed(m)

====
